---- MODULE Spec2Model ----
(***************************************************************************)
(* Model of PegInsertionEnv (src/env/peg_insertion.py): the episode        *)
(* bookkeeping, the two reward formulas, the observation extraction, and   *)
(* the demo-recording hooks.  The MuJoCo simulator is external: a physics  *)
(* step or a model reset leaves the bodies in any pose of a small set.     *)
(*                                                                         *)
(* Lengths are fixed-point integers in millimetres (0.05 is 50); the       *)
(* Euclidean norm is the integer square root of the sum of squares.        *)
(***************************************************************************)
EXTENDS Integers, Sequences, FiniteSets, TLC

\* ---------------------------------------------------------------- bounds
\* step calls explored after one construction / reset
MaxCalls == 2

\* ------------------------------------------------------- vector helpers
dof == 7

RECURSIVE SumTo(_, _)
SumTo(f, n) == IF n = 0 THEN 0 ELSE f[n] + SumTo(f, n - 1)

\* np.dot(u, v)
Dot(u, v) == SumTo([i \in 1..Len(u) |-> u[i] * v[i]], Len(u))

\* u - v, elementwise
Sub(u, v) == [i \in 1..Len(u) |-> u[i] - v[i]]

\* u + v, elementwise
Add(u, v) == [i \in 1..Len(u) |-> u[i] + v[i]]

RECURSIVE IsqrtIter(_, _, _)
IsqrtIter(n, lo, hi) ==
    IF lo >= hi THEN lo
    ELSE LET mid == (lo + hi + 1) \div 2
         IN IF mid * mid <= n THEN IsqrtIter(n, mid, hi)
                              ELSE IsqrtIter(n, lo, mid - 1)

\* np.linalg.norm(v), rounded down to the millimetre
Norm(v) == IsqrtIter(Dot(v, v), 0, 4096)

\* ------------------------------------------------------ reference poses
\* self._start_pos, in millimetres
start_pos == <<106, 157, 150, 244, -94, 237>>

\* self._goal_pos, in millimetres
goal_pos == <<0, 300, -500, 0, 300, -200>>

\* the depth below which leg_bottom counts as inserted (-0.45)
InsertDepth == -450

NoAttr == -1

\* ------------------------------------------------------------ simulator
\* qpos written by reset_model, in milliradians
ResetQpos(task) ==
    IF task = "insert"
    THEN <<445, 642, -395, -2321, -179, -603, 1571>>
    ELSE <<526, 573, -2075, -1553, 154, -575, 702>>

Zeros(n) == [i \in 1..n |-> 0]

\* states the scene can be in after a physics step: the two leg bodies, the
\* ball pose, and the joint positions and velocities
SimStates ==
    { [leg_bottom |-> <<0, 300, -500>>, leg_top |-> <<0, 300, -200>>,
       ball_xpos |-> <<0, 300, -500>>, ball_xquat |-> <<1, 0, 0, 0>>,
       qpos |-> <<1, 1, 1, 1, 1, 1, 1>>, qvel |-> <<1, 0, 0, 0, 0, 0, 0>>],
      [leg_bottom |-> <<0, 300, -450>>, leg_top |-> <<0, 300, -150>>,
       ball_xpos |-> <<0, 300, -450>>, ball_xquat |-> <<1, 0, 0, 0>>,
       qpos |-> <<2, 2, 2, 2, 2, 2, 2>>, qvel |-> <<0, 1, 0, 0, 0, 0, 0>>],
      [leg_bottom |-> <<106, 157, 120>>, leg_top |-> <<244, -94, 207>>,
       ball_xpos |-> <<106, 157, 120>>, ball_xquat |-> <<0, 1, 0, 0>>,
       qpos |-> <<3, 3, 3, 3, 3, 3, 3>>, qvel |-> <<0, 0, 1, 0, 0, 0, 0>>] }

\* self.do_simulation(a, self.frame_skip): the physics is the simulator's
DoSimulation(s, a) == SimStates

\* self.set_state(qpos, qvel): the joints are written, the bodies follow
SetState(s, qpos, qvel) == [s EXCEPT !.qpos = qpos, !.qvel = qvel]

\* MujocoEnv.reset -> reset_model: set_state(qpos, np.zeros(7))
ResetModel(task) ==
    { SetState(s, ResetQpos(task), Zeros(dof)) : s \in SimStates }

\* the simulator data right after load_model_from_path / MjSim
InitialSims ==
    { SetState(s, Zeros(dof), Zeros(dof)) : s \in SimStates }

\* np.hstack([get_body_com("leg_bottom"), get_body_com("leg_top")])
PegPos(s) == s.leg_bottom \o s.leg_top

\* ---------------------------------------------------------- observation
\* GetObs that ignores the robot_ob flag
GetObsAlways(s, robot_ob) ==
    [object_ob |-> s.ball_xpos \o s.ball_xquat,
     robot_ob |-> s.qpos \o s.qvel]

\* _get_obs: the object pose always, the robot state when configured
GetObs(s, robot_ob) ==
    LET object_ob == s.ball_xpos \o s.ball_xquat
    IN IF robot_ob
       THEN [object_ob |-> object_ob, robot_ob |-> s.qpos \o s.qvel]
       ELSE [object_ob |-> object_ob]

\* --------------------------------------------------------------- reward
\* ShapingReward with the delta taken the wrong way round
ShapingRewardReversed(prev, dist, coeff) == (dist - prev) * coeff

\* dist_diff * self._peg_to_point_rew_coeff
ShapingReward(prev, dist, coeff) == (prev - dist) * coeff

\* np.dot(a, a) * self._control_penalty_coeff * -1
ControlReward(a, coeff) == Dot(a, a) * coeff * (-1)

\* peg_at_start
PegAtStart(dist, threshold) == dist < threshold

\* PegAtGoal without the depth test
PegAtGoalNoDepth(dist, threshold, z) == dist < threshold

\* peg_at_goal
PegAtGoal(dist, threshold, z) == dist < threshold /\ z < InsertDepth

\* success_reward = self._success_rew if self._success else 0
SuccessReward(ok, success_rew) == IF ok THEN success_rew ELSE 0

\* TotalReward that ignores the sparse flag
TotalRewardShaped(sparse, shaping, control, bonus) ==
    shaping + control + bonus

\* the sparse / shaped sum
TotalReward(sparse, shaping, control, bonus) ==
    IF sparse THEN control + bonus ELSE shaping + control + bonus

\* _remove_reward: the reward, the info dict, and the two fields it assigns
RemoveReward(cfg, prev, s, a) ==
    LET dist_to_start == Norm(Sub(start_pos, PegPos(s)))
        peg_to_start_reward ==
            ShapingReward(prev, dist_to_start, cfg.peg_to_point_rew_coeff)
        control_reward == ControlReward(a, cfg.control_penalty_coeff)
        peg_at_start == PegAtStart(dist_to_start, cfg.goal_pos_threshold)
        success_reward == SuccessReward(peg_at_start, cfg.success_rew)
    IN [reward |-> TotalReward(cfg.sparse_rew, peg_to_start_reward,
                               control_reward, success_reward),
        info |-> [dist_to_start |-> dist_to_start,
                  control_rew |-> control_reward,
                  peg_to_start_rew |-> peg_to_start_reward,
                  success_rew |-> success_reward],
        prev_dist |-> dist_to_start,
        success |-> peg_at_start]

\* _insert_reward: the reward, the info dict, and the two fields it assigns
InsertReward(cfg, prev, s, a) ==
    LET dist_to_goal == Norm(Sub(goal_pos, PegPos(s)))
        peg_to_goal_reward ==
            ShapingReward(prev, dist_to_goal, cfg.peg_to_point_rew_coeff)
        control_reward == ControlReward(a, cfg.control_penalty_coeff)
        peg_at_goal ==
            PegAtGoal(dist_to_goal, cfg.goal_pos_threshold, s.leg_bottom[3])
        success_reward == SuccessReward(peg_at_goal, cfg.success_rew)
    IN [reward |-> TotalReward(cfg.sparse_rew, peg_to_goal_reward,
                               control_reward, success_reward),
        info |-> [dist_to_goal |-> dist_to_goal,
                  control_rew |-> control_reward,
                  peg_to_goal_rew |-> peg_to_goal_reward,
                  success_rew |-> success_reward],
        prev_dist |-> dist_to_goal,
        success |-> peg_at_goal]

\* RewardBound with a plain else in place of the elif
RewardBoundElse(task) == TRUE

\* the branch of step that binds reward and info; neither branch is taken
\* for any other task, and the names stay unbound
RewardBound(task) == task \in {"insert", "remove"}

\* TaskReward without the update of self._prev_dist
TaskRewardStale(cfg, prev, s, a) ==
    IF cfg.task = "insert"
    THEN [InsertReward(cfg, prev, s, a) EXCEPT !.prev_dist = prev]
    ELSE [RemoveReward(cfg, prev, s, a) EXCEPT !.prev_dist = prev]

TaskReward(cfg, prev, s, a) ==
    IF cfg.task = "insert" THEN InsertReward(cfg, prev, s, a)
                           ELSE RemoveReward(cfg, prev, s, a)

\* AddReward with = in place of +=
AddRewardAssign(total, reward) == reward

\* self._episode_reward += reward
AddReward(total, reward) == total + reward

\* DoneTest with the step limit compared by >= instead of ==
DoneTestAtLeast(ok, length, max_episode_steps) ==
    ok \/ length >= max_episode_steps

\* self._success or self._episode_length == self._max_episode_steps
DoneTest(ok, length, max_episode_steps) ==
    ok \/ length = max_episode_steps

\* info as returned: the terminal keys only when done, then "reward"
StepInfo(info, done, total, ok, reward) ==
    LET terminal == IF done
                    THEN [episode_reward |-> total,
                          episode_success |-> IF ok THEN 1 ELSE 0] @@ info
                    ELSE info
    IN [reward |-> reward] @@ terminal

\* ResetPrevDist that leaves self._prev_dist as it was
ResetPrevDistKeep(task, s, old) == old

\* the distance _reset_episodic_vars stores in self._prev_dist
ResetPrevDist(task, s, old) ==
    IF task = "remove" THEN Norm(Sub(start_pos, PegPos(s)))
    ELSE IF task = "insert" THEN Norm(Sub(goal_pos, PegPos(s)))
    ELSE old

\* ------------------------------------------------------- demo recorder
\* DemoRecorder.reset()
DemoReset(buf) == <<>>

\* DemoRecorder.add(ob=...) and DemoRecorder.add(ob=..., action=..., reward=...)
DemoAddOb(buf, ob) == Append(buf, [ob |-> ob])

DemoAdd(buf, ob, action, reward) ==
    Append(buf, [ob |-> ob, action |-> action, reward |-> reward])

\* ResetEpisodicVars without the call of self._demo.reset()
ResetEpisodicVarsKeepDemo(cfg, s, old_prev, buf) ==
    [episode_length |-> 0,
     episode_reward |-> 0,
     success |-> FALSE,
     demo |-> buf,
     prev_dist |-> ResetPrevDist(cfg.task, s, old_prev)]

\* _reset_episodic_vars: the fields it assigns
ResetEpisodicVars(cfg, s, old_prev, buf) ==
    [episode_length |-> 0,
     episode_reward |-> 0,
     success |-> FALSE,
     demo |-> IF cfg.record_demo THEN DemoReset(buf) ELSE buf,
     prev_dist |-> ResetPrevDist(cfg.task, s, old_prev)]

\* -------------------------------------------------------------- inputs
\* the optional features explored: both off with the tight threshold, or
\* all on with the loose one
Profiles ==
    { [robot_ob |-> FALSE, record_demo |-> FALSE, action_noise |-> <<>>,
       goal_pos_threshold |-> 50],
      [robot_ob |-> TRUE, record_demo |-> TRUE, action_noise |-> <<1>>,
       goal_pos_threshold |-> 100] }

\* the TaskConfig values explored: the two tasks the code knows and one it
\* does not, with either reward mode and a step limit of 1 or 2 (the noisy
\* profile only with limit 2, the unknown task only shaped with limit 1)
Configs ==
    { c \in { [sparse_rew |-> sp, task |-> t, max_episode_steps |-> m,
               robot_ob |-> p.robot_ob, record_demo |-> p.record_demo,
               action_noise |-> p.action_noise,
               goal_pos_threshold |-> p.goal_pos_threshold,
               peg_to_point_rew_coeff |-> 2, success_rew |-> 10,
               control_penalty_coeff |-> 1] :
              sp \in BOOLEAN, t \in {"insert", "remove", "push"},
              m \in {1, 2}, p \in Profiles } :
      /\ c.task = "push" => (~c.sparse_rew /\ c.max_episode_steps = 1)
      /\ c.action_noise # <<>> => c.max_episode_steps = 2 }

\* the flat action vectors a caller passes
Actions == { Zeros(dof), [i \in 1..dof |-> IF i = 1 THEN 1 ELSE 0] }

\* self.np_random.uniform(-r, r, size=len(a)), or no draw when noise is None
NoiseSamples(action_noise, n) ==
    IF action_noise = <<>> THEN { Zeros(n) }
    ELSE { [i \in 1..n |-> x] : x \in {-action_noise[1], action_noise[1]} }

\* ---------------------------------------------------------------- state
VARIABLES
    config,          \* the TaskConfig read in __init__
    sim,             \* self.sim / self.data
    episode_length,  \* self._episode_length
    episode_reward,  \* self._episode_reward
    success,         \* self._success
    prev_dist,       \* self._prev_dist
    demo,            \* the buffer of self._demo
    result,          \* what the last call returned, or the exception it raised
    calls            \* the calls since construction or the last reset

vars == <<config, sim, episode_length, episode_reward, success, prev_dist,
          demo, result, calls>>

\* __init__
Init ==
    /\ config \in Configs
    /\ sim \in InitialSims
    /\ LET ev == ResetEpisodicVars(config, sim, NoAttr, <<>>)
       IN /\ episode_length = ev.episode_length
          /\ episode_reward = ev.episode_reward
          /\ success = ev.success
          /\ prev_dist = ev.prev_dist
          /\ demo = ev.demo
    /\ result = [kind |-> "init"]
    /\ calls = << [sim |-> sim, action |-> <<>>, ret |-> [kind |-> "init"]] >>

\* reset
Reset ==
    \E s \in ResetModel(config.task) :
        LET ob == GetObs(s, config.robot_ob)
            ev == ResetEpisodicVars(config, s, prev_dist, demo)
            ret == [kind |-> "reset", obs |-> ob]
        IN /\ sim' = s
           /\ episode_length' = ev.episode_length
           /\ episode_reward' = ev.episode_reward
           /\ success' = ev.success
           /\ prev_dist' = ev.prev_dist
           /\ demo' = IF config.record_demo THEN DemoAddOb(ev.demo, ob)
                                            ELSE ev.demo
           /\ result' = ret
           /\ calls' = << [sim |-> s, action |-> <<>>, ret |-> ret] >>
           /\ UNCHANGED config

\* step
Step ==
    /\ Len(calls) <= MaxCalls
    /\ \E a0 \in Actions :
       \E noise \in NoiseSamples(config.action_noise, Len(a0)) :
       LET a == Add(a0, noise) IN
       \E s \in DoSimulation(sim, a) :
        LET obs == GetObs(s, config.robot_ob)
            length == episode_length + 1
        IN /\ sim' = s
           /\ episode_length' = length
           /\ UNCHANGED config
           /\ IF RewardBound(config.task)
              THEN LET r == TaskReward(config, prev_dist, s, a)
                       total == AddReward(episode_reward, r.reward)
                       done == DoneTest(r.success, length,
                                        config.max_episode_steps)
                       info == StepInfo(r.info, done, total, r.success,
                                        r.reward)
                       ret == [kind |-> "step", obs |-> obs,
                               reward |-> r.reward, done |-> done,
                               info |-> info]
                   IN /\ prev_dist' = r.prev_dist
                      /\ success' = r.success
                      /\ episode_reward' = total
                      /\ demo' = IF config.record_demo
                                 THEN DemoAdd(demo, obs, a, r.reward)
                                 ELSE demo
                      /\ result' = ret
                      /\ calls' = Append(calls, [sim |-> s, action |-> a,
                                                 ret |-> ret])
              ELSE LET ret == [kind |-> "raise",
                               exc |-> "UnboundLocalError"]
                   IN /\ UNCHANGED <<prev_dist, success, episode_reward, demo>>
                      /\ result' = ret
                      /\ calls' = Append(calls, [sim |-> s, action |-> a,
                                                 ret |-> ret])

Next == Reset \/ Step

Spec == Init /\ [][Next]_vars

\* ------------------------------------------------- notions of the claims
ValidTask == config.task \in {"insert", "remove"}

\* the reference pose of the configured task
RefPose == IF config.task = "insert" THEN goal_pos ELSE start_pos

\* the peg-to-reference distance of a simulator state
RefDist(s) == Norm(Sub(RefPose, PegPos(s)))

\* the success test of the configured task on a simulator state
SuccessAt(s) ==
    IF config.task = "insert"
    THEN RefDist(s) < config.goal_pos_threshold /\ s.leg_bottom[3] < -450
    ELSE RefDist(s) < config.goal_pos_threshold

\* the calls of the episode that returned from step
StepIdx == { i \in 2..Len(calls) : calls[i].ret.kind = "step" }

\* the shaping term an info dict reports
ShapingOf(info) ==
    IF config.task = "insert" THEN info.peg_to_goal_rew
                              ELSE info.peg_to_start_rew

RECURSIVE SumRewards(_)
SumRewards(n) ==
    IF n < 2 THEN 0
    ELSE (IF calls[n].ret.kind = "step" THEN calls[n].ret.info.reward ELSE 0)
         + SumRewards(n - 1)

RECURSIVE SumShaping(_)
SumShaping(n) ==
    IF n < 2 THEN 0
    ELSE (IF calls[n].ret.kind = "step" THEN ShapingOf(calls[n].ret.info)
                                        ELSE 0)
         + SumShaping(n - 1)

\* call i is a step on which success holds or the step limit is reached
Terminal(i) ==
    SuccessAt(calls[i].sim) \/ i - 1 = config.max_episode_steps

\* C1: the done value of every step is true exactly when the success test of
\* that step holds or the step is number max_episode_steps since the reset;
\* so every step before the first such step returned done = false.
C1_DoneExactly ==
    ValidTask =>
        /\ \A i \in StepIdx :
               calls[i].ret.done = Terminal(i)
        /\ \A i \in StepIdx :
               (/\ Terminal(i)
                /\ \A j \in StepIdx : j < i => ~Terminal(j))
               => /\ calls[i].ret.done
                  /\ \A j \in StepIdx : j < i => ~calls[j].ret.done

C1_Witness ==
    /\ ValidTask
    /\ Len(calls) = 3
    /\ ~calls[2].ret.done
    /\ calls[3].ret.done
    /\ ~success
    /\ episode_length = config.max_episode_steps

\* C2: on every step that returns done, info["episode_reward"] is the sum of
\* the info["reward"] values of all steps since the last reset, that step
\* included.
C2_EpisodeRewardIsSum ==
    \A i \in StepIdx :
        calls[i].ret.done =>
            calls[i].ret.info.episode_reward = SumRewards(i)

C2_Witness ==
    /\ Len(calls) = 3
    /\ result.kind = "step"
    /\ result.done
    /\ calls[2].ret.info.reward # 0
    /\ calls[3].ret.info.reward # 0
    /\ result.info.episode_reward # result.info.reward

\* C3: after reset and after every step prev_dist is the peg-to-reference
\* distance of the current simulator pose, and the shaping terms reported
\* since the reset sum to coeff * (distance at reset - current distance).
C3_PrevDistCurrent ==
    ValidTask =>
        /\ prev_dist = RefDist(sim)
        /\ SumShaping(Len(calls)) =
               config.peg_to_point_rew_coeff
               * (RefDist(calls[1].sim) - RefDist(sim))

C3_Witness ==
    /\ ValidTask
    /\ calls[1].ret.kind = "reset"
    /\ Len(calls) = 3
    /\ ShapingOf(calls[2].ret.info) # 0
    /\ ShapingOf(calls[3].ret.info) # 0
    /\ RefDist(calls[1].sim) # RefDist(sim)

\* C4: in sparse mode the reward returned by a step is exactly control
\* penalty + success bonus, and the info of that step still reports the
\* shaping term computed from the distance delta.
C4_SparseReward ==
    (ValidTask /\ config.sparse_rew) =>
        \A i \in StepIdx :
            LET bonus == IF SuccessAt(calls[i].sim) THEN config.success_rew
                                                    ELSE 0
                penalty == 0 - config.control_penalty_coeff
                               * Dot(calls[i].action, calls[i].action)
            IN /\ calls[i].ret.reward = penalty + bonus
               /\ calls[i].ret.reward = calls[i].ret.info.control_rew
                                        + calls[i].ret.info.success_rew
               /\ ShapingOf(calls[i].ret.info) =
                      config.peg_to_point_rew_coeff
                      * (RefDist(calls[i - 1].sim) - RefDist(calls[i].sim))

C4_Witness ==
    /\ ValidTask
    /\ config.sparse_rew
    /\ result.kind = "step"
    /\ ShapingOf(result.info) # 0
    /\ result.info.control_rew # 0

\* C5: in the insert task a step that leaves leg_bottom at z >= -0.45 sets
\* success false and pays no bonus, also when the goal distance is below the
\* threshold; success needs both the distance test and the depth test.
C5_InsertNeedsDepth ==
    config.task = "insert" =>
        \A i \in StepIdx :
            /\ calls[i].sim.leg_bottom[3] >= -450 =>
                   /\ calls[i].ret.info.success_rew = 0
                   /\ (i = Len(calls) => ~success)
            /\ calls[i].ret.info.success_rew # 0 =>
                   /\ calls[i].ret.info.dist_to_goal
                          < config.goal_pos_threshold
                   /\ calls[i].sim.leg_bottom[3] < -450
            /\ (i = Len(calls) /\ success) =>
                   /\ RefDist(sim) < config.goal_pos_threshold
                   /\ sim.leg_bottom[3] < -450

C5_Witness ==
    /\ config.task = "insert"
    /\ result.kind = "step"
    /\ sim.leg_bottom[3] >= -450
    /\ RefDist(sim) < config.goal_pos_threshold
    /\ ~success

\* C6: in the remove task with shaped rewards every step returns
\* coeff * (prev_dist - distance to start) - control_coeff * ||a||^2 + bonus,
\* the bonus being success_rew exactly when the distance is below the
\* threshold, and the success flag is that same test, recomputed every step.
C6_RemoveShapedReward ==
    [][(/\ config.task = "remove"
        /\ ~config.sparse_rew
        /\ result'.kind = "step"
        /\ Len(calls') = Len(calls) + 1)
       => LET d == Norm(Sub(start_pos, PegPos(sim')))
              a == calls'[Len(calls')].action
              bonus == IF d < config.goal_pos_threshold
                       THEN config.success_rew ELSE 0
          IN /\ result'.reward =
                    config.peg_to_point_rew_coeff * (prev_dist - d)
                    - config.control_penalty_coeff * Dot(a, a)
                    + bonus
             /\ result'.info.success_rew = bonus
             /\ success' = (d < config.goal_pos_threshold)]_vars

\* success held after the first step and no longer holds after the second
C6_Witness ==
    /\ config.task = "remove"
    /\ ~config.sparse_rew
    /\ Len(calls) = 3
    /\ calls[2].ret.info.success_rew = config.success_rew
    /\ result.kind = "step"
    /\ result.info.success_rew = 0
    /\ ~success
    /\ result.info.peg_to_start_rew # 0

\* C7: a reset, whatever preceded it, leaves the step count 0, the cumulative
\* reward 0, the success flag false, and prev_dist equal to the distance
\* between the reference pose and the peg pose of the freshly reset simulator.
C7_ResetReinitializes ==
    [][result'.kind = "reset"
       => /\ episode_length' = 0
          /\ episode_reward' = 0
          /\ success' = FALSE
          /\ ValidTask => prev_dist' = RefDist(sim')]_vars

C7_Witness ==
    /\ ValidTask
    /\ result.kind = "reset"
    /\ episode_length = 0
    /\ prev_dist = RefDist(sim)
    /\ prev_dist > 0

\* the demo entries the calls of the episode must have produced
RECURSIVE ExpectedDemo(_)
ExpectedDemo(n) ==
    IF n = 1 THEN << [ob |-> calls[1].ret.obs] >>
    ELSE IF calls[n].ret.kind = "step"
         THEN Append(ExpectedDemo(n - 1),
                     [ob |-> calls[n].ret.obs, action |-> calls[n].action,
                      reward |-> calls[n].ret.reward])
         ELSE ExpectedDemo(n - 1)

\* C8: with demo recording on, after a reset followed by k steps the demo
\* buffer is one observation-only entry followed by the k (observation,
\* action, reward) entries in step order, and nothing else.
C8_DemoBuffer ==
    (config.record_demo /\ calls[1].ret.kind = "reset") =>
        /\ demo = ExpectedDemo(Len(calls))
        /\ Len(demo) = 1 + Cardinality(StepIdx)

C8_Witness ==
    /\ config.record_demo
    /\ calls[1].ret.kind = "reset"
    /\ Len(calls) = 3
    /\ Len(demo) = 3
    /\ demo[2].ob # demo[3].ob

\* C9: with a task that is neither "insert" nor "remove" construction and
\* reset go through unchecked, and every step call ends in the unbound-name
\* failure instead of returning a tuple.
C9_UnsetTaskStepFails ==
    ~ValidTask =>
        /\ result.kind \in {"init", "reset", "raise"}
        /\ \A i \in 2..Len(calls) : calls[i].ret.kind = "raise"
        /\ prev_dist = NoAttr
        /\ episode_reward = 0

C9_Witness ==
    /\ ~ValidTask
    /\ result.kind = "raise"
    /\ episode_length = 2

\* the observations returned since construction or the last reset
ObsIdx == { i \in 1..Len(calls) : calls[i].ret.kind \in {"reset", "step"} }

\* C10: every observation returned by reset or step has the 7-length object
\* pose, and has the 14-length robot state exactly when robot_ob is
\* configured; the key set is the same for every observation.
C10_ObservationKeys ==
    \A i \in ObsIdx :
        LET obs == calls[i].ret.obs
        IN /\ "object_ob" \in DOMAIN obs
           /\ Len(obs.object_ob) = 7
           /\ ("robot_ob" \in DOMAIN obs) = config.robot_ob
           /\ config.robot_ob => Len(obs.robot_ob) = 14
           /\ DOMAIN obs \subseteq {"object_ob", "robot_ob"}
           /\ \A j \in ObsIdx : DOMAIN calls[j].ret.obs = DOMAIN obs

C10_Witness ==
    /\ config.robot_ob
    /\ calls[1].ret.kind = "reset"
    /\ Len(calls) = 3
    /\ result.kind = "step"
    /\ Len(result.obs.robot_ob) = 14
====
